---------------------------- MODULE Spec2Model ----------------------------
(***************************************************************************)
(* FilterX function-call binding: the argument container                   *)
(* (FilterXFunctionArgs), its retrieval API and check(), the simple        *)
(* function wrapper (_simple_eval) and name resolution                     *)
(* (filterx_function_lookup, filterx_generator_function_lookup).           *)
(*                                                                         *)
(* An argument of the raw list is identified by its position in the list  *)
(* (1..Len(args_list)); each argument owns one reference of its own        *)
(* expression, so an expression is identified by the same number.          *)
(***************************************************************************)
EXTENDS Integers, Sequences, FiniteSets, TLC

\* ------------------------------------------------------------------ bounds
\* longest raw argument list of the construction/resolution specification
MaxArgs == 3
\* longest raw argument list of the retrieval and check() specification
MaxApiArgs == 3
\* longest raw argument list of the literal extraction specification
MaxLitArgs == 2
\* longest raw argument list of the evaluation specification
MaxEvalArgs == 3
\* references handed out by get_expr/get_named_expr and not yet released
MaxHeld == 1
\* evaluations of one call site (one per message)
MaxEvals == 2
MaxLifeArgs == 2

\* ------------------------------------------------------------ vocabulary
NoName == "<positional>"
ArgNames == {"bar", "baz"}
FunctionNames == {"foo"}

NoObj == [type |-> "NULL", val |-> 0, len |-> 0]
IntObj(v) == [type |-> "integer", val |-> v, len |-> 0]
DoubleObj(v) == [type |-> "double", val |-> v, len |-> 0]
StrObj(s, n) == [type |-> "string", val |-> s, len |-> n]
NullObj == [type |-> "null", val |-> 0, len |-> 0]

\* an expression: a literal carrying its object, or a non-literal (a field
\* reference) whose evaluation depends on the message
Lit(o) == [literal |-> TRUE, obj |-> o]
Ref == [literal |-> FALSE, obj |-> IntObj(7)]

\* the expressions the call sites are drawn from; doubles are written in
\* hundredths: 3.14 is 314
BuildExprs == {Lit(IntObj(1))}
ApiExprs == {Lit(IntObj(42)), Lit(DoubleObj(314)), Lit(StrObj("hello", 5)), Lit(NullObj), Ref}

\* filterx_function_arg_new: name (NoName for a positional argument) and value
filterx_function_arg_new(name, value) == [name |-> name, value |-> value]

RawArgs(names, exprs) == {filterx_function_arg_new(n, e) : n \in names \cup {NoName}, e \in exprs}
RawLists(names, exprs, max) == UNION {[1..n -> RawArgs(names, exprs)] : n \in 0..max}

\* error codes of FILTERX_FUNCTION_ERROR
NoError == [code |-> "none", message |-> "", name |-> ""]
CtorFail == [code |-> "CTOR_FAIL",
             message |-> "cannot set positional argument after a named argument", name |-> ""]
UnexpectedArgs(name) == [code |-> "UNEXPECTED_ARGS", message |-> "unexpected argument", name |-> name]
FunctionNotFound == [code |-> "FUNCTION_NOT_FOUND", message |-> "function not found", name |-> ""]
CtorError == [code |-> "CTOR_FAIL", message |-> "constructor failed", name |-> ""]

VARIABLES
  args_list,      \* the raw argument list handed in by the parser
  function_name,  \* the name being resolved
  cfg,            \* built-in tables and plugin registry, for function_name
  arg_alloc,      \* arg_alloc[i]: FilterXFunctionArg i is allocated
  refcnt,         \* refcnt[i]: reference count of the expression of argument i
  held,           \* held[i]: references of expression i held by the API's caller
  retrieved,      \* retrieved[i]: FilterXFunctionArg.retrieved
  self,           \* the FilterXFunctionArgs container
  error,          \* the GError out-parameter of the last call that takes one
  expr,           \* the callable returned by resolution
  ret,            \* what the last operation returned
  evals,          \* evaluations of the call site so far
  pc              \* position of the program

vars == <<args_list, function_name, cfg, arg_alloc, refcnt, held, retrieved,
          self, error, expr, ret, evals, pc>>

ArgIds == 1..Len(args_list)

\* ------------------------------------------------------------- container
NoContainer == [state |-> "none", positional_args |-> <<>>, named_args |-> [n \in ArgNames |-> 0]]

\* positional_args->len
filterx_function_args_len(c) == Len(c.positional_args)

NamedIds(c) == {c.named_args[n] : n \in ArgNames} \ {0}
PositionalIds(c) == {c.positional_args[i] : i \in 1..Len(c.positional_args)}

\* positional_args->len == 0 && g_hash_table_size(named_args) == 0
filterx_function_args_empty(c) == Len(c.positional_args) = 0 /\ NamedIds(c) = {}

\* the memory state the construction loop works on
Mem(alloc, rc) == [alloc |-> alloc, refcnt |-> rc]

\* filterx_function_arg_free: drops the expression reference, frees the argument
filterx_function_arg_free(m, id) ==
  [alloc |-> [m.alloc EXCEPT ![id] = FALSE],
   refcnt |-> [m.refcnt EXCEPT ![id] = m.refcnt[id] - 1]]

RECURSIVE FreeAll(_, _)
FreeAll(m, ids) ==
  IF ids = {} THEN m
  ELSE LET id == CHOOSE x \in ids : TRUE
       IN FreeAll(filterx_function_arg_free(m, id), ids \ {id})

\* filterx_function_args_free: both collections free their arguments
filterx_function_args_free(m, c) == FreeAll(m, PositionalIds(c) \cup NamedIds(c))


\* g_hash_table_insert(named_args, g_strdup(name), arg) on a table created with
\* a value destroy function: a value already stored under the key is destroyed
Inserted(c, m, name, id) ==
  [c |-> [c EXCEPT !.named_args[name] = id],
   m |-> IF c.named_args[name] # 0 THEN filterx_function_arg_free(m, c.named_args[name]) ELSE m]

\* ArgsNewStep without the has_named test
ArgsNewStep_NoOrderCheck(st, list, id) ==
  IF list[id].name = NoName
  THEN [st EXCEPT !.c.positional_args = Append(st.c.positional_args, id)]
  ELSE LET ins == Inserted(st.c, st.m, list[id].name, id)
       IN [st EXCEPT !.c = ins.c, !.m = ins.m, !.has_named = TRUE]

\* ArgsNewStep adding a positional argument at the front of the array
ArgsNewStep_Prepend(st, list, id) ==
  IF list[id].name = NoName
  THEN IF st.has_named
       THEN [st EXCEPT !.failed = TRUE,
                       !.m = filterx_function_args_free(st.m, st.c),
                       !.c = NoContainer]
       ELSE [st EXCEPT !.c.positional_args = <<id>> \o st.c.positional_args]
  ELSE LET ins == Inserted(st.c, st.m, list[id].name, id)
       IN [st EXCEPT !.c = ins.c, !.m = ins.m, !.has_named = TRUE]

\* one iteration of the loop of filterx_function_args_new over elem->data
ArgsNewStep(st, list, id) ==
  IF list[id].name = NoName
  THEN IF st.has_named
       THEN [st EXCEPT !.failed = TRUE,
                       !.m = filterx_function_args_free(st.m, st.c),
                       !.c = NoContainer]
       ELSE [st EXCEPT !.c.positional_args = Append(st.c.positional_args, id)]
  ELSE LET ins == Inserted(st.c, st.m, list[id].name, id)
       IN [st EXCEPT !.c = ins.c, !.m = ins.m, !.has_named = TRUE]

RECURSIVE ArgsNewLoop(_, _, _)
ArgsNewLoop(st, list, id) ==
  IF id > Len(list) \/ st.failed THEN st
  ELSE ArgsNewLoop(ArgsNewStep(st, list, id), list, id + 1)

\* filterx_function_args_new(args, error): the container (state "live") or NULL
\* (state "none") with the error set, and the memory it leaves behind
filterx_function_args_new(list, m) ==
  LET st == ArgsNewLoop([c |-> [NoContainer EXCEPT !.state = "live"], m |-> m,
                         has_named |-> FALSE, failed |-> FALSE], list, 1)
  IN [self |-> st.c, m |-> st.m, error |-> IF st.failed THEN CtorFail ELSE NoError]

\* ------------------------------------------------------------- callables
NoExpr == [kind |-> "none", impl |-> "none", function_name |-> "", reads |-> {}]

\* filterx_function_init_instance: the display name is "<name>()"
DisplayName(name) == name \o "()"

\* filterx_simple_function_new(function_name, args, function_proto)
filterx_simple_function_new(name, impl, reads) ==
  [kind |-> "simple", impl |-> impl, function_name |-> DisplayName(name), reads |-> reads]

\* lookup_simple_function probing the plugin registry before the built-in table
lookup_simple_function_PluginFirst(g, name) ==
  IF g.plugin_simple = "ok" THEN filterx_simple_function_new(name, "plugin", g.reads)
  ELSE IF g.builtin_simple THEN filterx_simple_function_new(name, "builtin", g.reads)
  ELSE NoExpr

\* _lookup_simple_function: built-in simple table first, then the plugin
\* registered in LL_CONTEXT_FILTERX_SIMPLE_FUNC
lookup_simple_function(g, name) ==
  IF g.builtin_simple
  THEN filterx_simple_function_new(name, "builtin", g.reads)
  ELSE IF g.plugin_simple = "none" THEN NoExpr
  ELSE IF g.plugin_simple = "null" THEN NoExpr
  ELSE filterx_simple_function_new(name, "plugin", g.reads)

\* ctor(function_name, args, error) of a general or generator function: it
\* builds a callable owning args, or fails (with or without setting the
\* error) after releasing args
Constructed(g, kind, impl, name) ==
  IF g.ctor_result = "ok"
  THEN [expr |-> [kind |-> kind, impl |-> impl, function_name |-> DisplayName(name), reads |-> {}],
        error |-> NoError]
  ELSE [expr |-> NoExpr, error |-> IF g.ctor_result = "error" THEN CtorError ELSE NoError]

\* _lookup_function: built-in constructor table first, then the plugin
\* registered in LL_CONTEXT_FILTERX_FUNC
lookup_function(g, name) ==
  IF g.builtin_ctor THEN Constructed(g, "function", "builtin", name)
  ELSE IF g.plugin_func = "none" THEN [expr |-> NoExpr, error |-> NoError]
  ELSE IF g.plugin_func = "null" THEN [expr |-> NoExpr, error |-> NoError]
  ELSE Constructed(g, "function", "plugin", name)

\* lookup_generator_function falling back to the plugins of
\* LL_CONTEXT_FILTERX_FUNC
lookup_generator_function_AnyContext(g, name) ==
  IF g.builtin_gen THEN Constructed(g, "generator", "builtin", name)
  ELSE IF g.plugin_gen = "ok" THEN Constructed(g, "generator", "plugin", name)
  ELSE IF g.plugin_func = "ok" THEN Constructed(g, "function", "plugin", name)
  ELSE [expr |-> NoExpr, error |-> NoError]

\* _lookup_generator_function: built-in generator table first, then the plugin
\* registered in LL_CONTEXT_FILTERX_GEN_FUNC
lookup_generator_function(g, name) ==
  IF g.builtin_gen THEN Constructed(g, "generator", "builtin", name)
  ELSE IF g.plugin_gen = "none" THEN [expr |-> NoExpr, error |-> NoError]
  ELSE IF g.plugin_gen = "null" THEN [expr |-> NoExpr, error |-> NoError]
  ELSE Constructed(g, "generator", "plugin", name)

\* whether the constructor of the general/generator tier was called with args
CtorCalled(g, generator) ==
  IF generator THEN g.builtin_gen \/ g.plugin_gen = "ok"
  ELSE g.builtin_ctor \/ g.plugin_func = "ok"

\* the tables _lookup_simple_function consults, in the order it consults them
simple_function_probes(g) ==
  IF g.builtin_simple THEN <<"builtin_simple">> ELSE <<"builtin_simple", "plugin_simple">>

\* the tables _lookup_function consults, in the order it consults them
function_probes(g) ==
  IF g.builtin_ctor THEN <<"builtin_ctor">> ELSE <<"builtin_ctor", "plugin_func">>

\* the tables _lookup_generator_function consults, in the order it consults them
generator_function_probes(g) ==
  IF g.builtin_gen THEN <<"builtin_gen">> ELSE <<"builtin_gen", "plugin_gen">>

\* the tables filterx_function_lookup consults: _lookup_function is only
\* reached when _lookup_simple_function returned NULL
function_lookup_probes(g, name) ==
  simple_function_probes(g)
    \o (IF lookup_simple_function(g, name).kind # "none" THEN <<>> ELSE function_probes(g))

\* function_lookup trying _lookup_function before _lookup_simple_function
function_lookup_GeneralFirst(g, name) ==
  LET simple == lookup_simple_function(g, name)
      general == lookup_function(g, name)
  IN IF general.expr.kind # "none" THEN [expr |-> general.expr, error |-> NoError, released |-> FALSE]
     ELSE IF simple.kind # "none" /\ ~CtorCalled(g, FALSE)
     THEN [expr |-> simple, error |-> NoError, released |-> FALSE]
     ELSE [expr |-> NoExpr,
           error |-> IF general.error.code = "none" THEN FunctionNotFound ELSE general.error,
           released |-> CtorCalled(g, FALSE)]

\* filterx_function_lookup after a successful filterx_function_args_new
function_lookup(g, name) ==
  LET simple == lookup_simple_function(g, name)
      general == lookup_function(g, name)
  IN IF simple.kind # "none" THEN [expr |-> simple, error |-> NoError, released |-> FALSE]
     ELSE IF general.expr.kind # "none" THEN [expr |-> general.expr, error |-> NoError, released |-> FALSE]
     ELSE [expr |-> NoExpr,
           error |-> IF general.error.code = "none" THEN FunctionNotFound ELSE general.error,
           released |-> CtorCalled(g, FALSE)]

\* filterx_generator_function_lookup after a successful filterx_function_args_new
generator_function_lookup(g, name) ==
  LET gen == lookup_generator_function(g, name)
  IN IF gen.expr.kind # "none" THEN [expr |-> gen.expr, error |-> NoError, released |-> FALSE]
     ELSE [expr |-> NoExpr,
           error |-> IF gen.error.code = "none" THEN FunctionNotFound ELSE gen.error,
           released |-> CtorCalled(g, TRUE)]

\* one call made during an operation: what was called, on which index or name
Event(op, index, name) == [op |-> op, index |-> index, name |-> name]

\* what an operation returned: the fields an operation does not set keep these values
NoRet == [op |-> "none", index |-> 0, name |-> "", found |-> FALSE, obj |-> NoObj,
          exists |-> FALSE, error |-> FALSE, number |-> 0, evaluated |-> 0,
          check |-> "none", native |-> FALSE, array |-> <<>>, trace |-> <<>>,
          pushed |-> NoError, pushed_name |-> "", result |-> "none", failed_at |-> -1]

\* ------------------------------------------------------------- retrieval
\* the part of the state the retrieval functions work on
Flags(rt, rc) == [retrieved |-> rt, refcnt |-> rc]

\* filterx_expr_ref / filterx_expr_unref (unref of NULL, id 0, does nothing)
filterx_expr_ref(st, id) == [st EXCEPT !.refcnt[id] = @ + 1]
filterx_expr_unref(st, id) == IF id = 0 THEN st ELSE [st EXCEPT !.refcnt[id] = @ - 1]

\* filterx_expr_is_literal
filterx_expr_is_literal(e) == e.literal

\* filterx_expr_eval: a literal yields its object; a non-literal yields its
\* object or fails (NULL), as the message decides
filterx_expr_eval(e, ok) == IF e.literal \/ ok THEN e.obj ELSE NoObj

\* filterx_object_is_type(obj, &FILTERX_TYPE_NAME(primitive))
IsPrimitive(o) == o.type \in {"integer", "double", "boolean"}

\* GenericNumber
GnNaN == [type |-> "GN_NAN", val |-> 0]

\* filterx_primitive_get_value
filterx_primitive_get_value(o) ==
  [type |-> IF o.type = "double" THEN "GN_DOUBLE" ELSE "GN_INT64", val |-> o.val]

\* filterx_function_args_get_expr not marking the argument retrieved
get_expr_NoMark(c, st, index) ==
  IF Len(c.positional_args) <= index THEN [id |-> 0, st |-> st]
  ELSE LET id == c.positional_args[index + 1]
       IN [id |-> id, st |-> filterx_expr_ref(st, id)]

\* filterx_function_args_get_expr handing out the expression without taking
\* a reference
get_expr_NoRef(c, st, index) ==
  IF Len(c.positional_args) <= index THEN [id |-> 0, st |-> st]
  ELSE LET id == c.positional_args[index + 1]
       IN [id |-> id, st |-> [st EXCEPT !.retrieved[id] = TRUE]]

\* filterx_function_args_get_expr: index counts from 0; id 0 is NULL
filterx_function_args_get_expr(c, st, index) ==
  IF Len(c.positional_args) <= index THEN [id |-> 0, st |-> st]
  ELSE LET id == c.positional_args[index + 1]
       IN [id |-> id, st |-> filterx_expr_ref([st EXCEPT !.retrieved[id] = TRUE], id)]

\* filterx_function_args_get_named_expr
filterx_function_args_get_named_expr(c, st, name) ==
  LET id == c.named_args[name]
  IN IF id = 0 THEN [id |-> 0, st |-> st]
     ELSE [id |-> id, st |-> filterx_expr_ref([st EXCEPT !.retrieved[id] = TRUE], id)]

\* filterx_function_args_get_object keeping the reference get_expr gave it
get_object_NoUnref(c, st, list, index, ok) ==
  LET e == filterx_function_args_get_expr(c, st, index)
  IN IF e.id = 0 THEN [obj |-> NoObj, st |-> e.st, evaluated |-> 0]
     ELSE [obj |-> filterx_expr_eval(list[e.id].value, ok), st |-> e.st, evaluated |-> 1]

\* filterx_function_args_get_object
filterx_function_args_get_object(c, st, list, index, ok) ==
  LET e == filterx_function_args_get_expr(c, st, index)
  IN IF e.id = 0 THEN [obj |-> NoObj, st |-> e.st, evaluated |-> 0]
     ELSE [obj |-> filterx_expr_eval(list[e.id].value, ok),
           st |-> filterx_expr_unref(e.st, e.id), evaluated |-> 1]

\* filterx_function_args_get_named_object
filterx_function_args_get_named_object(c, st, list, name, ok) ==
  LET e == filterx_function_args_get_named_expr(c, st, name)
  IN IF e.id = 0 THEN [obj |-> NoObj, exists |-> FALSE, st |-> e.st, evaluated |-> 0]
     ELSE [obj |-> filterx_expr_eval(list[e.id].value, ok), exists |-> TRUE,
           st |-> filterx_expr_unref(e.st, e.id), evaluated |-> 1]

\* filterx_function_args_get_named_literal_generic_number
filterx_function_args_get_named_literal_generic_number(c, st, list, name) ==
  LET e == filterx_function_args_get_named_expr(c, st, name)
      x == list[e.id].value
      obj == filterx_expr_eval(x, TRUE)
  IN IF e.id = 0
     THEN [value |-> GnNaN, exists |-> FALSE, error |-> FALSE, st |-> e.st, evaluated |-> 0]
     ELSE IF ~filterx_expr_is_literal(x)
     THEN [value |-> GnNaN, exists |-> TRUE, error |-> TRUE,
           st |-> filterx_expr_unref(e.st, e.id), evaluated |-> 0]
     ELSE IF obj = NoObj \/ ~IsPrimitive(obj)
     THEN [value |-> GnNaN, exists |-> TRUE, error |-> TRUE,
           st |-> filterx_expr_unref(e.st, e.id), evaluated |-> 1]
     ELSE [value |-> filterx_primitive_get_value(obj), exists |-> TRUE, error |-> FALSE,
           st |-> filterx_expr_unref(e.st, e.id), evaluated |-> 1]

\* filterx_function_args_get_named_literal_integer returning the payload of
\* any number
literal_integer_AnyNumber(c, st, list, name) ==
  LET gn == filterx_function_args_get_named_literal_generic_number(c, st, list, name)
  IN IF ~gn.exists \/ gn.error THEN [gn EXCEPT !.value = 0]
     ELSE [gn EXCEPT !.value = gn.value.val]

\* filterx_function_args_get_named_literal_integer
filterx_function_args_get_named_literal_integer(c, st, list, name) ==
  LET gn == filterx_function_args_get_named_literal_generic_number(c, st, list, name)
  IN IF ~gn.exists \/ gn.error THEN [gn EXCEPT !.value = 0]
     ELSE IF gn.value.type # "GN_INT64" THEN [gn EXCEPT !.value = 0, !.error = TRUE]
     ELSE [gn EXCEPT !.value = gn.value.val]

\* filterx_string_get_value: the string of a string object, NULL otherwise
filterx_string_get_value(o) == IF o.type = "string" THEN o ELSE NoObj

\* _get_literal_string_from_expr evaluating the expression before it tests
\* whether it is a literal
literal_string_EvalFirst(e) ==
  LET obj == filterx_expr_eval(e, TRUE)
  IN IF ~filterx_expr_is_literal(e) THEN [str |-> NoObj, evaluated |-> 1]
     ELSE [str |-> filterx_string_get_value(obj), evaluated |-> 1]

\* _get_literal_string_from_expr: the string (with its length) or NULL, and
\* how many times the expression was evaluated
get_literal_string_from_expr(e) ==
  LET obj == filterx_expr_eval(e, TRUE)
  IN IF ~filterx_expr_is_literal(e) THEN [str |-> NoObj, evaluated |-> 0]
     ELSE IF obj = NoObj THEN [str |-> NoObj, evaluated |-> 1]
     ELSE [str |-> filterx_string_get_value(obj), evaluated |-> 1]

\* filterx_function_args_get_literal_string
filterx_function_args_get_literal_string(c, st, list, index) ==
  LET e == filterx_function_args_get_expr(c, st, index)
      r == get_literal_string_from_expr(list[e.id].value)
  IN IF e.id = 0 THEN [str |-> NoObj, st |-> e.st, evaluated |-> 0]
     ELSE [str |-> r.str, st |-> filterx_expr_unref(e.st, e.id), evaluated |-> r.evaluated]

\* filterx_function_args_is_literal_null
filterx_function_args_is_literal_null(c, st, list, index) ==
  LET e == filterx_function_args_get_expr(c, st, index)
      x == list[e.id].value
      obj == filterx_expr_eval(x, TRUE)
  IN IF e.id = 0
     THEN [is_null |-> FALSE, st |-> filterx_expr_unref(e.st, e.id), evaluated |-> 0]
     ELSE IF ~filterx_expr_is_literal(x)
     THEN [is_null |-> FALSE, st |-> filterx_expr_unref(e.st, e.id), evaluated |-> 0]
     ELSE IF obj = NoObj
     THEN [is_null |-> FALSE, st |-> filterx_expr_unref(e.st, e.id), evaluated |-> 1]
     ELSE [is_null |-> (obj.type = "null"), st |-> filterx_expr_unref(e.st, e.id),
           evaluated |-> 1]

\* filterx_function_args_get_named_literal_object
filterx_function_args_get_named_literal_object(c, st, list, name) ==
  LET e == filterx_function_args_get_named_expr(c, st, name)
      x == list[e.id].value
  IN IF e.id = 0 THEN [obj |-> NoObj, exists |-> FALSE, st |-> e.st, evaluated |-> 0]
     ELSE IF ~filterx_expr_is_literal(x)
     THEN [obj |-> NoObj, exists |-> TRUE, st |-> filterx_expr_unref(e.st, e.id),
           evaluated |-> 0]
     ELSE [obj |-> filterx_expr_eval(x, TRUE), exists |-> TRUE,
           st |-> filterx_expr_unref(e.st, e.id), evaluated |-> 1]

\* filterx_function_args_get_named_literal_string
filterx_function_args_get_named_literal_string(c, st, list, name) ==
  LET e == filterx_function_args_get_named_expr(c, st, name)
      r == get_literal_string_from_expr(list[e.id].value)
  IN IF e.id = 0 THEN [str |-> NoObj, exists |-> FALSE, st |-> e.st, evaluated |-> 0]
     ELSE [str |-> r.str, exists |-> TRUE, st |-> filterx_expr_unref(e.st, e.id),
           evaluated |-> r.evaluated]

\* the named arguments of c that rt does not mark retrieved
UnretrievedNames(c, rt) == {n \in ArgNames : c.named_args[n] # 0 /\ ~rt[c.named_args[n]]}
AllPositionalRetrieved(c, rt) == \A i \in 1..Len(c.positional_args) : rt[c.positional_args[i]]

\* filterx_function_args_check that does not look at the positional arguments
args_check_NoAssert(c, rt) ==
  IF UnretrievedNames(c, rt) = {} THEN {[res |-> "ok", error |-> NoError]}
  ELSE {[res |-> "error", error |-> UnexpectedArgs(n)] : n \in UnretrievedNames(c, rt)}

\* filterx_function_args_check that accepts unread named arguments
args_check_NoNamed(c, rt) ==
  IF ~AllPositionalRetrieved(c, rt) THEN {[res |-> "assert", error |-> NoError]}
  ELSE {[res |-> "ok", error |-> NoError]}

\* filterx_function_args_check: the outcomes it can have. An unretrieved
\* positional argument fails g_assert; otherwise the first unretrieved named
\* argument the hash table iteration meets is reported, and the iteration order
\* is not specified
filterx_function_args_check(c, rt) ==
  IF ~AllPositionalRetrieved(c, rt) THEN {[res |-> "assert", error |-> NoError]}
  ELSE IF UnretrievedNames(c, rt) = {} THEN {[res |-> "ok", error |-> NoError]}
  ELSE {[res |-> "error", error |-> UnexpectedArgs(n)] : n \in UnretrievedNames(c, rt)}

\* ---------------------------------------------------------------- actions
\* build_container: filterx_function_args_new called on the raw list
ArgsNew ==
  /\ pc = "parsed"
  /\ LET r == filterx_function_args_new(args_list, Mem(arg_alloc, refcnt))
     IN /\ self' = r.self
        /\ arg_alloc' = r.m.alloc
        /\ refcnt' = r.m.refcnt
        /\ error' = r.error
        /\ pc' = IF r.self.state = "live" THEN "built" ELSE "failed"
        /\ ret' = [NoRet EXCEPT !.op = "args_new"]
  /\ UNCHANGED <<args_list, function_name, cfg, held, retrieved, expr, evals>>

\* resolve going on to the lookup tiers after a failed build
resolve_LookupAfterFailedBuild(list, m, g, name, generator) ==
  LET r == filterx_function_args_new(list, m)
      l == IF generator THEN generator_function_lookup(g, name) ELSE function_lookup(g, name)
      probes == IF generator THEN generator_function_probes(g) ELSE function_lookup_probes(g, name)
  IN IF l.released
     THEN [self |-> [r.self EXCEPT !.state = IF r.self.state = "live" THEN "freed" ELSE "none"],
           m |-> filterx_function_args_free(r.m, r.self),
           error |-> l.error, expr |-> l.expr, probes |-> probes]
     ELSE [self |-> r.self, m |-> r.m, error |-> l.error,
           expr |-> IF r.self.state = "live" THEN l.expr ELSE NoExpr, probes |-> probes]

\* filterx_function_lookup / filterx_generator_function_lookup: the container
\* is built and, unless that failed, the tiers are probed; a failed
\* constructor has released the container, any other failure leaves it as it is
resolve(list, m, g, name, generator) ==
  LET r == filterx_function_args_new(list, m)
      l == IF generator THEN generator_function_lookup(g, name) ELSE function_lookup(g, name)
      probes == IF generator THEN generator_function_probes(g) ELSE function_lookup_probes(g, name)
  IN IF r.self.state # "live"
     THEN [self |-> r.self, m |-> r.m, error |-> r.error, expr |-> NoExpr, probes |-> <<>>]
     ELSE IF l.released
     THEN [self |-> [r.self EXCEPT !.state = "freed"],
           m |-> filterx_function_args_free(r.m, r.self),
           error |-> l.error, expr |-> l.expr, probes |-> probes]
     ELSE [self |-> r.self, m |-> r.m, error |-> l.error, expr |-> l.expr, probes |-> probes]

\* the parser resolves the call site
Resolve(generator) ==
  /\ pc = "parsed"
  /\ LET r == resolve(args_list, Mem(arg_alloc, refcnt), cfg, function_name, generator)
     IN /\ self' = r.self
        /\ arg_alloc' = r.m.alloc
        /\ refcnt' = r.m.refcnt
        /\ error' = r.error
        /\ expr' = r.expr
        /\ pc' = IF r.expr.kind = "none" THEN "failed" ELSE "resolved"
        /\ ret' = [NoRet EXCEPT !.op = IF generator THEN "generator_function_lookup"
                                       ELSE "function_lookup",
                                !.trace = [k \in 1..Len(r.probes) |->
                                             Event("probe", 0, r.probes[k])]]
  /\ UNCHANGED <<args_list, function_name, cfg, held, retrieved, evals>>

FunctionLookup == Resolve(FALSE)

GeneratorFunctionLookup == Resolve(TRUE)

\* filterx_function_args_free on a container built on its own
ArgsFree ==
  /\ pc = "built"
  /\ LET m == filterx_function_args_free(Mem(arg_alloc, refcnt), self)
     IN /\ arg_alloc' = m.alloc
        /\ refcnt' = m.refcnt
  /\ self' = [self EXCEPT !.state = "freed"]
  /\ pc' = "freed"
  /\ ret' = [NoRet EXCEPT !.op = "args_free"]
  /\ UNCHANGED <<args_list, function_name, cfg, held, retrieved, error, expr, evals>>

\* _simple_free, and the free method of a general or generator callable:
\* the callable releases the container it owns
ExprFree ==
  /\ pc = "resolved"
  /\ LET m == filterx_function_args_free(Mem(arg_alloc, refcnt), self)
     IN /\ arg_alloc' = m.alloc
        /\ refcnt' = m.refcnt
  /\ self' = [self EXCEPT !.state = "freed"]
  /\ pc' = "freed"
  /\ ret' = [NoRet EXCEPT !.op = "expr_free"]
  /\ UNCHANGED <<args_list, function_name, cfg, held, retrieved, error, expr, evals>>

\* ------------------------------------------------------ simple function

\* the loop of _simple_function_eval_args: positional argument i is fetched
\* with filterx_function_args_get_object; NULL ends the loop (goto error)
\* the loop of _simple_function_eval_args going on to the later arguments
\* after one has failed to evaluate
RECURSIVE EvalArgsLoop_Continue(_, _, _, _, _, _, _)
EvalArgsLoop_Continue(c, st, list, oks, i, array, trace) ==
  IF i >= filterx_function_args_len(c)
  THEN [failed |-> FALSE, at |-> -1, st |-> st, array |-> array, trace |-> trace]
  ELSE LET r == filterx_function_args_get_object(c, st, list, i, oks[c.positional_args[i + 1]])
           t == Append(trace, Event("get_object", i, ""))
           rest == EvalArgsLoop_Continue(c, r.st, list, oks, i + 1, Append(array, r.obj), t)
       IN IF r.obj = NoObj
          THEN [failed |-> TRUE, at |-> i, st |-> rest.st, array |-> <<>>, trace |-> rest.trace]
          ELSE rest

\* the loop of _simple_function_eval_args clearing the retrieved flags when
\* an argument fails to evaluate
RECURSIVE EvalArgsLoop_ClearOnFailure(_, _, _, _, _, _, _)
EvalArgsLoop_ClearOnFailure(c, st, list, oks, i, array, trace) ==
  IF i >= filterx_function_args_len(c)
  THEN [failed |-> FALSE, at |-> -1, st |-> st, array |-> array, trace |-> trace]
  ELSE LET r == filterx_function_args_get_object(c, st, list, i, oks[c.positional_args[i + 1]])
           t == Append(trace, Event("get_object", i, ""))
       IN IF r.obj = NoObj
          THEN [failed |-> TRUE, at |-> i,
                st |-> [r.st EXCEPT !.retrieved = [k \in DOMAIN r.st.retrieved |-> FALSE]],
                array |-> <<>>, trace |-> t]
          ELSE EvalArgsLoop_ClearOnFailure(c, r.st, list, oks, i + 1, Append(array, r.obj), t)

RECURSIVE EvalArgsLoop(_, _, _, _, _, _, _)
EvalArgsLoop(c, st, list, oks, i, array, trace) ==
  IF i >= filterx_function_args_len(c)
  THEN [failed |-> FALSE, at |-> -1, st |-> st, array |-> array, trace |-> trace]
  ELSE LET r == filterx_function_args_get_object(c, st, list, i, oks[c.positional_args[i + 1]])
           t == Append(trace, Event("get_object", i, ""))
       IN IF r.obj = NoObj
          THEN [failed |-> TRUE, at |-> i, st |-> r.st, array |-> <<>>, trace |-> t]
          ELSE EvalArgsLoop(c, r.st, list, oks, i + 1, Append(array, r.obj), t)

\* f(s, args): the native function is handed the evaluated array and, through
\* the call site, reads the named arguments in reads
RECURSIVE NativeReads(_, _, _, _, _, _)
NativeReads(c, st, list, oks, reads, trace) ==
  IF reads = {} THEN [st |-> st, trace |-> trace]
  ELSE LET n == CHOOSE x \in reads : TRUE
           r == filterx_function_args_get_named_object(c, st, list, n, TRUE)
       IN NativeReads(c, r.st, list, oks, reads \ {n},
                      Append(trace, Event("get_named_object", 0, n)))

NoOutcome == [st |-> Flags(<<>>, <<>>), check |-> "none", native |-> FALSE, array |-> <<>>,
              trace |-> <<>>, pushed |-> NoError, pushed_name |-> "", result |-> "NULL",
              failed_at |-> -1]

\* _simple_eval running check() after the native function has read its arguments
simple_eval_CheckAfterNative(c, st, list, e, oks, native_ok) ==
  IF filterx_function_args_empty(c)
  THEN {[NoOutcome EXCEPT !.st = st, !.native = TRUE, !.trace = <<Event("native", 0, "")>>,
                          !.result = IF native_ok THEN "value" ELSE "NULL"]}
  ELSE LET a == EvalArgsLoop(c, st, list, oks, 0, <<>>, <<>>)
           n == NativeReads(c, a.st, list, oks, e.reads, Append(a.trace, Event("native", 0, "")))
       IN IF a.failed THEN {[NoOutcome EXCEPT !.st = a.st, !.trace = a.trace, !.failed_at = a.at]}
          ELSE {[NoOutcome EXCEPT !.st = n.st, !.check = r.res, !.native = TRUE,
                                  !.array = a.array,
                                  !.trace = Append(n.trace, Event("check", 0, "")),
                                  !.pushed = r.error,
                                  !.pushed_name = IF r.res = "error" THEN e.function_name ELSE "",
                                  !.result = IF r.res = "ok" /\ native_ok THEN "value" ELSE "NULL"]
                  : r \in filterx_function_args_check(c, n.st.retrieved)}

\* _simple_eval going on to the native function when check() has failed
simple_eval_IgnoreCheck(c, st, list, e, oks, native_ok) ==
  IF filterx_function_args_empty(c)
  THEN {[NoOutcome EXCEPT !.st = st, !.native = TRUE, !.trace = <<Event("native", 0, "")>>,
                          !.result = IF native_ok THEN "value" ELSE "NULL"]}
  ELSE LET a == EvalArgsLoop(c, st, list, oks, 0, <<>>, <<>>)
           t == Append(a.trace, Event("check", 0, ""))
           n == NativeReads(c, a.st, list, oks, e.reads, Append(t, Event("native", 0, "")))
       IN IF a.failed THEN {[NoOutcome EXCEPT !.st = a.st, !.trace = a.trace, !.failed_at = a.at]}
          ELSE {[NoOutcome EXCEPT !.st = n.st, !.check = r.res, !.native = TRUE,
                                  !.array = a.array, !.trace = n.trace,
                                  !.result = IF native_ok THEN "value" ELSE "NULL"]
                  : r \in filterx_function_args_check(c, a.st.retrieved)}

\* _simple_eval with _simple_function_eval_args: the outcomes one evaluation
\* can have. oks[i] tells whether the expression of argument i evaluates for
\* this message, native_ok whether the native function returns a value;
\* failed_at is the index of the positional argument whose evaluation failed
simple_eval(c, st, list, e, oks, native_ok) ==
  IF filterx_function_args_empty(c)
  THEN {[NoOutcome EXCEPT !.st = st, !.native = TRUE, !.trace = <<Event("native", 0, "")>>,
                          !.result = IF native_ok THEN "value" ELSE "NULL"]}
  ELSE LET a == EvalArgsLoop(c, st, list, oks, 0, <<>>, <<>>)
           t == Append(a.trace, Event("check", 0, ""))
           n == NativeReads(c, a.st, list, oks, e.reads, Append(t, Event("native", 0, "")))
       IN IF a.failed THEN {[NoOutcome EXCEPT !.st = a.st, !.trace = a.trace, !.failed_at = a.at]}
          ELSE {IF r.res = "ok"
                THEN [NoOutcome EXCEPT !.st = n.st, !.check = "ok", !.native = TRUE,
                                       !.array = a.array, !.trace = n.trace,
                                       !.result = IF native_ok THEN "value" ELSE "NULL"]
                ELSE IF r.res = "error"
                THEN [NoOutcome EXCEPT !.st = a.st, !.check = "error", !.trace = t,
                                       !.pushed = r.error, !.pushed_name = e.function_name]
                ELSE [NoOutcome EXCEPT !.st = a.st, !.check = "assert", !.trace = t,
                                       !.result = "abort"]
                  : r \in filterx_function_args_check(c, a.st.retrieved)}

\* --------------------------------------------------- retrieval actions
TotalHeld == LET RECURSIVE Sum(_)
                 Sum(i) == IF i = 0 THEN 0 ELSE held[i] + Sum(i - 1)
             IN Sum(Len(args_list))

\* the caller asks for the expression of a positional argument and keeps the
\* reference it is given
GetExpr ==
  /\ pc = "built"
  /\ \E index \in 0..Len(args_list) :
       LET e == filterx_function_args_get_expr(self, Flags(retrieved, refcnt), index)
       IN /\ e.id # 0 => TotalHeld < MaxHeld
          /\ retrieved' = e.st.retrieved
          /\ refcnt' = e.st.refcnt
          /\ held' = IF e.id = 0 THEN held ELSE [held EXCEPT ![e.id] = @ + 1]
          /\ ret' = [NoRet EXCEPT !.op = "get_expr", !.index = index, !.found = (e.id # 0)]
  /\ UNCHANGED <<args_list, function_name, cfg, arg_alloc, self, error, expr, evals, pc>>

\* the same by name
GetNamedExpr ==
  /\ pc = "built"
  /\ \E name \in ArgNames :
       LET e == filterx_function_args_get_named_expr(self, Flags(retrieved, refcnt), name)
       IN /\ e.id # 0 => TotalHeld < MaxHeld
          /\ retrieved' = e.st.retrieved
          /\ refcnt' = e.st.refcnt
          /\ held' = IF e.id = 0 THEN held ELSE [held EXCEPT ![e.id] = @ + 1]
          /\ ret' = [NoRet EXCEPT !.op = "get_named_expr", !.name = name, !.found = (e.id # 0)]
  /\ UNCHANGED <<args_list, function_name, cfg, arg_alloc, self, error, expr, evals, pc>>

\* the caller releases a reference it was given
ExprUnref ==
  /\ pc \in {"built", "freed"}
  /\ \E id \in ArgIds :
       /\ held[id] > 0
       /\ refcnt' = filterx_expr_unref(Flags(retrieved, refcnt), id).refcnt
       /\ held' = [held EXCEPT ![id] = @ - 1]
       /\ ret' = [NoRet EXCEPT !.op = "expr_unref", !.index = id]
  /\ UNCHANGED <<args_list, function_name, cfg, arg_alloc, retrieved, self, error, expr,
                 evals, pc>>

GetObject ==
  /\ pc = "built"
  /\ \E index \in 0..Len(args_list), ok \in BOOLEAN :
       LET r == filterx_function_args_get_object(self, Flags(retrieved, refcnt), args_list,
                                                 index, ok)
       IN /\ retrieved' = r.st.retrieved
          /\ refcnt' = r.st.refcnt
          /\ ret' = [NoRet EXCEPT !.op = "get_object", !.index = index, !.obj = r.obj,
                                  !.evaluated = r.evaluated]
  /\ UNCHANGED <<args_list, function_name, cfg, arg_alloc, held, self, error, expr, evals, pc>>

GetNamedObject ==
  /\ pc = "built"
  /\ \E name \in ArgNames, ok \in BOOLEAN :
       LET r == filterx_function_args_get_named_object(self, Flags(retrieved, refcnt),
                                                       args_list, name, ok)
       IN /\ retrieved' = r.st.retrieved
          /\ refcnt' = r.st.refcnt
          /\ ret' = [NoRet EXCEPT !.op = "get_named_object", !.name = name, !.obj = r.obj,
                                  !.exists = r.exists, !.evaluated = r.evaluated]
  /\ UNCHANGED <<args_list, function_name, cfg, arg_alloc, held, self, error, expr, evals, pc>>

GetNamedLiteralGenericNumber ==
  /\ pc = "built"
  /\ \E name \in ArgNames :
       LET r == filterx_function_args_get_named_literal_generic_number(
                  self, Flags(retrieved, refcnt), args_list, name)
       IN /\ retrieved' = r.st.retrieved
          /\ refcnt' = r.st.refcnt
          /\ ret' = [NoRet EXCEPT !.op = "get_named_literal_generic_number", !.name = name,
                                  !.obj = r.value, !.exists = r.exists, !.error = r.error,
                                  !.evaluated = r.evaluated]
  /\ UNCHANGED <<args_list, function_name, cfg, arg_alloc, held, self, error, expr, evals, pc>>

GetNamedLiteralInteger ==
  /\ pc = "built"
  /\ \E name \in ArgNames :
       LET r == filterx_function_args_get_named_literal_integer(
                  self, Flags(retrieved, refcnt), args_list, name)
       IN /\ retrieved' = r.st.retrieved
          /\ refcnt' = r.st.refcnt
          /\ ret' = [NoRet EXCEPT !.op = "get_named_literal_integer", !.name = name,
                                  !.number = r.value, !.exists = r.exists, !.error = r.error,
                                  !.evaluated = r.evaluated]
  /\ UNCHANGED <<args_list, function_name, cfg, arg_alloc, held, self, error, expr, evals, pc>>

GetLiteralString ==
  /\ pc = "built"
  /\ \E index \in 0..Len(args_list) :
       LET r == filterx_function_args_get_literal_string(self, Flags(retrieved, refcnt),
                                                         args_list, index)
       IN /\ retrieved' = r.st.retrieved
          /\ refcnt' = r.st.refcnt
          /\ ret' = [NoRet EXCEPT !.op = "get_literal_string", !.index = index, !.obj = r.str,
                                  !.evaluated = r.evaluated]
  /\ UNCHANGED <<args_list, function_name, cfg, arg_alloc, held, self, error, expr, evals, pc>>

IsLiteralNull ==
  /\ pc = "built"
  /\ \E index \in 0..Len(args_list) :
       LET r == filterx_function_args_is_literal_null(self, Flags(retrieved, refcnt),
                                                      args_list, index)
       IN /\ retrieved' = r.st.retrieved
          /\ refcnt' = r.st.refcnt
          /\ ret' = [NoRet EXCEPT !.op = "is_literal_null", !.index = index,
                                  !.found = r.is_null, !.evaluated = r.evaluated]
  /\ UNCHANGED <<args_list, function_name, cfg, arg_alloc, held, self, error, expr, evals, pc>>

GetNamedLiteralObject ==
  /\ pc = "built"
  /\ \E name \in ArgNames :
       LET r == filterx_function_args_get_named_literal_object(self, Flags(retrieved, refcnt),
                                                               args_list, name)
       IN /\ retrieved' = r.st.retrieved
          /\ refcnt' = r.st.refcnt
          /\ ret' = [NoRet EXCEPT !.op = "get_named_literal_object", !.name = name,
                                  !.obj = r.obj, !.exists = r.exists,
                                  !.evaluated = r.evaluated]
  /\ UNCHANGED <<args_list, function_name, cfg, arg_alloc, held, self, error, expr, evals, pc>>

GetNamedLiteralString ==
  /\ pc = "built"
  /\ \E name \in ArgNames :
       LET r == filterx_function_args_get_named_literal_string(self, Flags(retrieved, refcnt),
                                                               args_list, name)
       IN /\ retrieved' = r.st.retrieved
          /\ refcnt' = r.st.refcnt
          /\ ret' = [NoRet EXCEPT !.op = "get_named_literal_string", !.name = name,
                                  !.obj = r.str, !.exists = r.exists,
                                  !.evaluated = r.evaluated]
  /\ UNCHANGED <<args_list, function_name, cfg, arg_alloc, held, self, error, expr, evals, pc>>

\* check() called on the container with a cleared GError: a failed g_assert
\* aborts the process
Check ==
  /\ pc = "built"
  /\ \E r \in filterx_function_args_check(self, retrieved) :
       /\ error' = r.error
       /\ ret' = [NoRet EXCEPT !.op = "check", !.check = r.res]
       /\ pc' = IF r.res = "assert" THEN "aborted" ELSE pc
  /\ UNCHANGED <<args_list, function_name, cfg, arg_alloc, refcnt, held, retrieved, self,
                 expr, evals>>

\* the evaluator evaluates the call site for one message
SimpleEval ==
  /\ pc = "resolved"
  /\ expr.kind = "simple"
  /\ evals < MaxEvals
  /\ \E oks \in [ArgIds -> BOOLEAN], native_ok \in BOOLEAN :
       \E o \in simple_eval(self, Flags(retrieved, refcnt), args_list, expr, oks, native_ok) :
         /\ retrieved' = o.st.retrieved
         /\ refcnt' = o.st.refcnt
         /\ ret' = [NoRet EXCEPT !.op = "simple_eval", !.check = o.check, !.native = o.native,
                                 !.array = o.array, !.trace = o.trace, !.pushed = o.pushed,
                                 !.pushed_name = o.pushed_name, !.result = o.result,
                                 !.failed_at = o.failed_at]
         /\ pc' = IF o.result = "abort" THEN "aborted" ELSE pc
  /\ evals' = evals + 1
  /\ UNCHANGED <<args_list, function_name, cfg, arg_alloc, held, self, error, expr>>

\* ---------------------------------------------------------- specifications
Tiers == {"none", "null", "ok"}
Configs(reads) ==
  [builtin_simple : BOOLEAN, builtin_ctor : BOOLEAN, builtin_gen : BOOLEAN,
   plugin_simple : Tiers, plugin_func : Tiers, plugin_gen : Tiers,
   ctor_result : {"ok", "error", "null"}, reads : reads]

InitWith(lists, configs) ==
  /\ args_list \in lists
  /\ function_name \in FunctionNames
  /\ cfg \in configs
  /\ arg_alloc = [i \in 1..Len(args_list) |-> TRUE]
  /\ refcnt = [i \in 1..Len(args_list) |-> 1]
  /\ held = [i \in 1..Len(args_list) |-> 0]
  /\ retrieved = [i \in 1..Len(args_list) |-> FALSE]
  /\ self = NoContainer
  /\ error = NoError
  /\ expr = NoExpr
  /\ ret = NoRet
  /\ evals = 0
  /\ pc = "parsed"

\* construction and resolution
Init == InitWith(RawLists(ArgNames, BuildExprs, MaxArgs), Configs({{}}))

Next ==
  \/ ArgsNew
  \/ FunctionLookup
  \/ GeneratorFunctionLookup
  \/ ArgsFree
  \/ ExprFree

Spec == Init /\ [][Next]_vars

\* ------------------------------------------- construction and resolution
Unnamed(list) == {i \in 1..Len(list) : list[i].name = NoName}
Named(list) == {i \in 1..Len(list) : list[i].name # NoName}

HasPositionalAfterNamed(list) == \E i \in Named(list), j \in Unnamed(list) : i < j
\* the elements of a set of numbers, in increasing order
RECURSIVE Sorted(_)
Sorted(ids) ==
  IF ids = {} THEN <<>>
  ELSE LET lo == CHOOSE x \in ids : \A y \in ids : x <= y
       IN <<lo>> \o Sorted(ids \ {lo})

\* C4: filterx_function_args_new returns NULL with the "cannot set positional
\* argument after a named argument" error exactly for the raw lists in which
\* an unnamed argument follows a named one; for every other raw list it
\* returns a container and sets no error.
C4_PositionalAfterNamedRejected ==
  pc # "parsed" =>
    IF HasPositionalAfterNamed(args_list)
    THEN error = CtorFail /\ self.state = "none" /\ pc = "failed"
    ELSE self.state # "none" /\ (ret.op = "args_new" => error = NoError /\ pc = "built")

C4_Witness ==
  ret.op = "args_new" /\ HasPositionalAfterNamed(args_list) /\ error = CtorFail /\ Len(args_list) = 3

\* C5: an accepted raw list yields a positional array holding exactly the
\* unnamed arguments in call order, no argument is marked retrieved, and a raw
\* list of positional arguments only leaves the named table empty.
C5_PositionalOrderPreserved ==
  (ret.op = "args_new" /\ pc = "built") =>
    /\ self.positional_args = Sorted(Unnamed(args_list))
    /\ \A i \in ArgIds : ~retrieved[i]
    /\ (Named(args_list) = {} => NamedIds(self) = {})
    /\ NamedIds(self) \subseteq Named(args_list)

C5_Witness ==
  /\ ret.op = "args_new" /\ pc = "built"
  /\ Len(self.positional_args) = 2 /\ NamedIds(self) # {}

\* C6: when the raw list names two arguments alike, a build that reports no
\* error has not replaced the earlier argument by the later one.
C6_NoSilentReplace ==
  (ret.op = "args_new" /\ pc = "built" /\ error = NoError) =>
    \A i, j \in Named(args_list) :
      (i < j /\ args_list[i].name = args_list[j].name) =>
        ~(self.named_args[args_list[j].name] = j /\ ~arg_alloc[i])

\* C7: with a well-formed argument list, ordinary-call resolution returns the
\* simple built-in whenever the name is in the built-in simple table, whatever
\* the plugin registry holds; a name in no ordinary built-in table resolves to
\* the constructible plugin (simple context first, then the general context
\* when its constructor accepts the arguments); a name in neither yields no
\* callable and the function-not-found error.
C7_ResolutionFallback ==
  (ret.op = "function_lookup" /\ self.state # "none") =>
    /\ cfg.builtin_simple =>
         expr = [kind |-> "simple", impl |-> "builtin",
                 function_name |-> DisplayName(function_name), reads |-> cfg.reads]
    /\ (~cfg.builtin_simple /\ ~cfg.builtin_ctor /\ cfg.plugin_simple = "ok") =>
         expr.kind = "simple" /\ expr.impl = "plugin" /\ error = NoError
    /\ (~cfg.builtin_simple /\ ~cfg.builtin_ctor /\ cfg.plugin_simple = "none"
          /\ cfg.plugin_func = "ok" /\ cfg.ctor_result = "ok") =>
         expr.kind = "function" /\ expr.impl = "plugin" /\ error = NoError
    /\ (~cfg.builtin_simple /\ ~cfg.builtin_ctor /\ cfg.plugin_simple = "none"
          /\ cfg.plugin_func = "none") =>
         expr = NoExpr /\ error = FunctionNotFound /\ pc = "failed"

C7_Witness ==
  /\ ret.op = "function_lookup" /\ cfg.builtin_simple /\ cfg.plugin_simple = "ok"
  /\ expr.kind = "simple" /\ expr.impl = "builtin" /\ Len(args_list) = 2

\* C8: the raw list is consumed on every outcome: after a failed build or a
\* failed resolution no argument is allocated and every expression reference
\* has been dropped; after a success every argument is held by the container.
C8_OwnershipTaken ==
  /\ pc = "failed" => \A i \in ArgIds : ~arg_alloc[i] /\ refcnt[i] = 0
  /\ pc \in {"built", "resolved"} =>
       \A i \in ArgIds : arg_alloc[i] /\ i \in PositionalIds(self) \cup NamedIds(self)

\* the tables a resolution consulted, in order
ProbeNames == [k \in 1..Len(ret.trace) |-> ret.trace[k].name]
IsPrefix(a, b) == Len(a) <= Len(b) /\ \A k \in 1..Len(a) : a[k] = b[k]
PluginTiers == {"plugin_simple", "plugin_func", "plugin_gen"}

\* C12 as stated: a name that is a general built-in and a plugin of the
\* simple-function context resolves to the general built-in, and no plugin
\* registry is consulted before both built-in tables have been.
C12_BuiltinsBeforePlugins ==
  (ret.op = "function_lookup" /\ self.state # "none") =>
    /\ (~cfg.builtin_simple /\ cfg.builtin_ctor /\ cfg.plugin_simple = "ok"
          /\ cfg.ctor_result = "ok") =>
         expr.kind = "function" /\ expr.impl = "builtin"
    /\ \A k \in 1..Len(ret.trace) :
         ProbeNames[k] \in PluginTiers =>
           \E i, j \in 1..(k - 1) : ProbeNames[i] = "builtin_simple" /\ ProbeNames[j] = "builtin_ctor"

\* C12 as amended: ordinary-call resolution consults the built-in simple
\* table, then the simple-function plugin context, then the built-in
\* constructor table, then the general plugin context, stopping at the first
\* that yields a callable. A name that is a general built-in and a
\* constructible plugin of the simple-function context resolves to the plugin;
\* the general built-in is returned when the name is neither a simple built-in
\* nor a constructible simple plugin, whatever the general plugin context holds.
C12_SimpleTiersBeforeGeneral ==
  (ret.op = "function_lookup" /\ self.state # "none") =>
    /\ IsPrefix(ProbeNames, <<"builtin_simple", "plugin_simple", "builtin_ctor", "plugin_func">>)
    /\ (~cfg.builtin_simple /\ cfg.plugin_simple = "ok") =>
         /\ expr.kind = "simple" /\ expr.impl = "plugin"
         /\ ProbeNames = <<"builtin_simple", "plugin_simple">>
    /\ (~cfg.builtin_simple /\ cfg.plugin_simple # "ok" /\ cfg.builtin_ctor
          /\ cfg.ctor_result = "ok") =>
         /\ expr.kind = "function" /\ expr.impl = "builtin"
         /\ ProbeNames = <<"builtin_simple", "plugin_simple", "builtin_ctor">>

C12_Witness ==
  /\ ret.op = "function_lookup" /\ cfg.builtin_ctor /\ cfg.plugin_simple = "ok"
  /\ cfg.ctor_result = "ok" /\ expr.kind = "simple" /\ expr.impl = "plugin"

\* C13: an ordinary-call resolution consults only the simple and general
\* built-in tables and plugin contexts and never returns a generator; a
\* generator resolution consults only the generator built-in table and plugin
\* context and never returns an ordinary function. A name registered in the
\* other flavour only yields function-not-found.
C13_FlavorsDisjoint ==
  /\ (ret.op = "function_lookup" /\ self.state # "none") =>
       /\ \A k \in 1..Len(ret.trace) :
            ProbeNames[k] \in {"builtin_simple", "plugin_simple", "builtin_ctor", "plugin_func"}
       /\ expr.kind \in {"none", "simple", "function"}
       /\ (~cfg.builtin_simple /\ ~cfg.builtin_ctor /\ cfg.plugin_simple = "none"
             /\ cfg.plugin_func = "none") =>
            expr = NoExpr /\ error = FunctionNotFound
  /\ (ret.op = "generator_function_lookup" /\ self.state # "none") =>
       /\ \A k \in 1..Len(ret.trace) : ProbeNames[k] \in {"builtin_gen", "plugin_gen"}
       /\ expr.kind \in {"none", "generator"}
       /\ (~cfg.builtin_gen /\ cfg.plugin_gen = "none") =>
            expr = NoExpr /\ error = FunctionNotFound

C13_Witness ==
  /\ ret.op = "generator_function_lookup" /\ self.state # "none"
  /\ cfg.builtin_simple /\ cfg.builtin_ctor /\ cfg.plugin_func = "ok"
  /\ ~cfg.builtin_gen /\ cfg.plugin_gen = "none" /\ error = FunctionNotFound

\* C14: when the build of the container fails, either resolution returns the
\* construction error, no callable, and consults no table; function-not-found
\* is never set over an error that the build or a constructor has set.
C14_BuildFailureAbortsResolution ==
  ret.op \in {"function_lookup", "generator_function_lookup"} =>
    /\ HasPositionalAfterNamed(args_list) =>
         error = CtorFail /\ expr = NoExpr /\ ret.trace = <<>> /\ pc = "failed"
    /\ error = FunctionNotFound =>
         /\ ~HasPositionalAfterNamed(args_list)
         /\ ~(CtorCalled(cfg, ret.op = "generator_function_lookup") /\ cfg.ctor_result = "error")
    /\ (~HasPositionalAfterNamed(args_list) /\ expr = NoExpr
          /\ CtorCalled(cfg, ret.op = "generator_function_lookup") /\ cfg.ctor_result = "error") =>
         error = CtorError

C14_Witness ==
  /\ ret.op = "function_lookup" /\ HasPositionalAfterNamed(args_list)
  /\ cfg.builtin_simple /\ cfg.plugin_func = "ok" /\ error = CtorFail

\* ------------------------------------------------ retrieval and check()
\* a registry that plays no part: the container is built on its own
NoConfig == [builtin_simple |-> FALSE, builtin_ctor |-> FALSE, builtin_gen |-> FALSE,
             plugin_simple |-> "none", plugin_func |-> "none", plugin_gen |-> "none",
             ctor_result |-> "ok", reads |-> {}]

InitCheck == InitWith(RawLists(ArgNames, BuildExprs \cup {Ref}, MaxApiArgs), {NoConfig})

NextCheck ==
  \/ ArgsNew
  \/ GetExpr
  \/ GetNamedExpr
  \/ ExprUnref
  \/ GetObject
  \/ GetNamedObject
  \/ Check
  \/ ArgsFree

SpecCheck == InitCheck /\ [][NextCheck]_vars

\* C2: check() on a container whose positional arguments are all retrieved
\* fails with the unexpected-argument error naming a named argument that was
\* never retrieved when there is one, and succeeds, setting no error, when
\* every named argument has been retrieved.
C2_CheckNamed ==
  (ret.op = "check" /\ AllPositionalRetrieved(self, retrieved)) =>
    IF UnretrievedNames(self, retrieved) # {}
    THEN /\ ret.check = "error"
         /\ error.code = "UNEXPECTED_ARGS"
         /\ error.name \in UnretrievedNames(self, retrieved)
    ELSE ret.check = "ok" /\ error = NoError

C2_Witness ==
  /\ ret.op = "check" /\ ret.check = "error" /\ Len(self.positional_args) = 1
  /\ AllPositionalRetrieved(self, retrieved) /\ error.name = "baz"

\* the expression of the positional argument at a C index (in bounds)
PositionalId(index) == self.positional_args[index + 1]
PositionalValue(index) == args_list[PositionalId(index)].value

\* the effect C16 describes of handing out the expression of argument id
\* (0 when there is no such argument)
HandsOut(id) ==
  IF id = 0
  THEN ~ret'.found /\ retrieved' = retrieved /\ refcnt' = refcnt
  ELSE /\ ret'.found
       /\ retrieved' = [retrieved EXCEPT ![id] = TRUE]
       /\ refcnt' = [refcnt EXCEPT ![id] = @ + 1]
       /\ self' = self

\* C16: get_positional_expr(index) with an out-of-bounds index returns none
\* and changes no retrieved flag and no reference count; in bounds it sets
\* the retrieved flag of exactly that argument, increments exactly that
\* expression's reference count by one and leaves the positional sequence and
\* the named mapping as they are. get_named_expr(name) does the same by name.
C16_GetExprFrame ==
  [][/\ ret'.op = "get_expr" =>
          HandsOut(IF ret'.index >= Len(self.positional_args) THEN 0
                   ELSE PositionalId(ret'.index))
     /\ ret'.op = "get_named_expr" => HandsOut(self.named_args[ret'.name])]_vars

C16_Witness ==
  /\ ret.op = "get_expr" /\ ret.found /\ ret.index = 1
  /\ retrieved[PositionalId(1)] /\ ~retrieved[PositionalId(0)]
  /\ refcnt[PositionalId(1)] = 2 /\ refcnt[PositionalId(0)] = 1

C16_WitnessNamed ==
  /\ ret.op = "get_named_expr" /\ ret.found
  /\ retrieved[self.named_args[ret.name]] /\ refcnt[self.named_args[ret.name]] = 2
  /\ \E i \in ArgIds : i # self.named_args[ret.name] /\ ~retrieved[i] /\ refcnt[i] = 1

\* C3: check() on a container with a positional argument that was never
\* retrieved fails the assertion, whatever the named arguments are: it returns
\* neither success nor an error.
C3_CheckPositionalAsserts ==
  (ret.op = "check" /\ ~AllPositionalRetrieved(self, retrieved)) =>
    ret.check = "assert" /\ pc = "aborted" /\ error = NoError

C3_Witness ==
  /\ ret.op = "check" /\ ret.check = "assert"
  /\ NamedIds(self) # {} /\ UnretrievedNames(self, retrieved) = {}

\* ---------------------------------------------------- literal extraction
LitNames == {"bar"}

InitLiteral == InitWith(RawLists(LitNames, ApiExprs, MaxLitArgs), {NoConfig})

NextLiteral ==
  \/ ArgsNew
  \/ GetNamedLiteralGenericNumber
  \/ GetNamedLiteralInteger
  \/ GetLiteralString
  \/ ArgsFree

SpecLiteral == InitLiteral /\ [][NextLiteral]_vars

\* the expression bound to a name in the container (the name is present)
NamedValue(name) == args_list[self.named_args[name]].value

\* C9: get_named_literal_integer(n) returns (v, exists, no error) for an
\* integer literal v; (0, exists, error) for a floating-point literal, for a
\* literal that is no primitive and for a non-literal expression; and
\* (0, not exists, no error) when n is absent.
C9_NamedLiteralInteger ==
  ret.op = "get_named_literal_integer" =>
    IF self.named_args[ret.name] = 0
    THEN ret.number = 0 /\ ~ret.exists /\ ~ret.error
    ELSE IF NamedValue(ret.name).literal /\ NamedValue(ret.name).obj.type = "integer"
    THEN ret.number = NamedValue(ret.name).obj.val /\ ret.exists /\ ~ret.error
    ELSE ret.number = 0 /\ ret.exists /\ ret.error

C9_Witness ==
  /\ ret.op = "get_named_literal_integer" /\ ret.name = "bar"
  /\ ret.number = 42 /\ ret.exists /\ ~ret.error

\* C11: get_positional_literal_string(i) on a non-literal argument returns
\* no value and does not evaluate the expression; on a string literal it
\* evaluates the literal once and returns its string and length; either way
\* every expression has the reference count it had before the call.
C11_LiteralString ==
  [][(ret'.op = "get_literal_string" /\ ret'.index < Len(self.positional_args)) =>
       /\ ~PositionalValue(ret'.index).literal =>
            ret'.obj = NoObj /\ ret'.evaluated = 0
       /\ (PositionalValue(ret'.index).literal
             /\ PositionalValue(ret'.index).obj.type = "string") =>
            /\ ret'.obj.val = PositionalValue(ret'.index).obj.val
            /\ ret'.obj.len = PositionalValue(ret'.index).obj.len
            /\ ret'.evaluated = 1
       /\ refcnt' = refcnt]_vars

C11_Witness ==
  /\ ret.op = "get_literal_string" /\ ret.index = 0
  /\ ret.obj = StrObj("hello", 5) /\ ret.evaluated = 1 /\ refcnt[PositionalId(0)] = 1

\* ------------------------------------------------- simple function calls
\* call sites of the evaluation specification: positional arguments are the
\* literals 1 and 2 or a field reference, named arguments the literal "x"
EvalArgs ==
  {filterx_function_arg_new(NoName, e) : e \in {Lit(IntObj(1)), Lit(IntObj(2)), Ref}}
    \cup {filterx_function_arg_new(n, Lit(StrObj("x", 1))) : n \in ArgNames}
EvalLists == UNION {[1..n -> EvalArgs] : n \in 0..MaxEvalArgs}

\* registries in which the name is a simple function, or no function at all
EvalConfigs ==
  {g \in Configs(SUBSET ArgNames) :
     /\ ~g.builtin_ctor /\ ~g.builtin_gen
     /\ g.plugin_simple # "null" /\ g.plugin_func = "none" /\ g.plugin_gen = "none"
     /\ g.ctor_result = "ok"}

InitEval == InitWith(EvalLists, EvalConfigs)

NextEval ==
  \/ FunctionLookup
  \/ SimpleEval
  \/ ExprFree

SpecEval == InitEval /\ [][NextEval]_vars

\* the whole life of a container: built and used through the retrieval API
\* by a constructor, or owned and evaluated by a simple callable, then freed
LifeExprs == {Lit(IntObj(42)), Lit(StrObj("hello", 5)), Lit(NullObj), Ref}
LifeConfigs ==
  {g \in Configs(SUBSET LitNames) :
     /\ g.builtin_simple /\ ~g.builtin_ctor /\ ~g.builtin_gen
     /\ g.plugin_simple = "none" /\ g.plugin_func = "none" /\ g.plugin_gen = "none"
     /\ g.ctor_result = "ok"}

LifeArgs ==
  {filterx_function_arg_new(NoName, e) : e \in LifeExprs}
    \cup {filterx_function_arg_new(n, e) : n \in LitNames, e \in {Lit(IntObj(42)), Ref}}
LifeLists == UNION {[1..n -> LifeArgs] : n \in 0..MaxLifeArgs}

InitLife == InitWith(LifeLists, LifeConfigs)

NextLife ==
  \/ ArgsNew
  \/ GetExpr
  \/ GetNamedExpr
  \/ ExprUnref
  \/ GetObject
  \/ GetNamedObject
  \/ GetLiteralString
  \/ IsLiteralNull
  \/ GetNamedLiteralObject
  \/ GetNamedLiteralString
  \/ GetNamedLiteralGenericNumber
  \/ GetNamedLiteralInteger
  \/ Check
  \/ ArgsFree
  \/ FunctionLookup
  \/ SimpleEval
  \/ ExprFree

SpecLife == InitLife /\ [][NextLife]_vars

\* position of the first event of a kind in a trace, 0 when there is none
FirstEvent(trace, op) ==
  IF \E k \in 1..Len(trace) : trace[k].op = op
  THEN CHOOSE k \in 1..Len(trace) : trace[k].op = op /\ \A j \in 1..(k - 1) : trace[j].op # op
  ELSE 0

\* the values the positional arguments of the container evaluate to
PositionalValues == [i \in 1..Len(self.positional_args) |-> args_list[self.positional_args[i]].value.obj]

\* the call foo(1, 2, bar: "x") with a native function that reads bar
IsFooCall ==
  /\ Len(args_list) = 3
  /\ args_list[1] = filterx_function_arg_new(NoName, Lit(IntObj(1)))
  /\ args_list[2] = filterx_function_arg_new(NoName, Lit(IntObj(2)))
  /\ args_list[3] = filterx_function_arg_new("bar", Lit(StrObj("x", 1)))
  /\ expr.kind = "simple" /\ expr.impl = "builtin" /\ expr.reads = {"bar"}

\* C1 as stated: evaluating foo(1, 2, bar: "x") succeeds, check() passes after
\* the reads of the native function, which is invoked with [1, 2].
C1_FooCallSucceeds ==
  (ret.op = "simple_eval" /\ IsFooCall) =>
    /\ ret.check = "ok" /\ ret.native /\ ret.array = <<IntObj(1), IntObj(2)>>
    /\ FirstEvent(ret.trace, "get_named_object") < FirstEvent(ret.trace, "check")

\* C1 as amended: the wrapper runs check() after its own positional reads and
\* before the native function is invoked, so no read of the native function
\* precedes check(); foo(1, 2, bar: "x") evaluates its positional arguments to
\* [1, 2] and then fails in check() with the unexpected argument "bar", the
\* native function not being invoked.
C1_CheckBeforeNative ==
  ret.op = "simple_eval" =>
    /\ (ret.native /\ ~filterx_function_args_empty(self)) =>
         /\ ret.check = "ok"
         /\ FirstEvent(ret.trace, "check") = Len(self.positional_args) + 1
         /\ FirstEvent(ret.trace, "native") = FirstEvent(ret.trace, "check") + 1
         /\ \A k \in 1..Len(ret.trace) :
              ret.trace[k].op = "get_named_object" => k > FirstEvent(ret.trace, "native")
         /\ ret.array = PositionalValues
    /\ IsFooCall =>
         /\ ret.check = "error" /\ ret.pushed = UnexpectedArgs("bar")
         /\ ~ret.native /\ ret.result = "NULL"
         /\ retrieved = <<TRUE, TRUE, FALSE>>

C1_Witness ==
  ret.op = "simple_eval" /\ IsFooCall /\ ret.check = "error" /\ evals = 1

\* C18: the simple-callable wrapper never triggers the positional-argument
\* assertion of check(): whenever the wrapper calls check(), its own loop has
\* retrieved every positional argument, so check() returns success or an
\* unexpected-named-argument error.
C18_WrapperNeverAsserts ==
  ret.op = "simple_eval" =>
    /\ ret.check # "assert" /\ ret.result # "abort" /\ pc # "aborted"
    /\ ret.check # "none" =>
         /\ AllPositionalRetrieved(self, retrieved)
         /\ ret.check = "ok" \/ (ret.check = "error" /\ ret.pushed.code = "UNEXPECTED_ARGS")

C18_Witness ==
  /\ ret.op = "simple_eval" /\ ret.check = "ok" /\ evals = 1
  /\ filterx_function_args_len(self) = MaxEvalArgs
  /\ AllPositionalRetrieved(self, retrieved)

\* the calls get_object(0) .. get_object(n - 1), in this order
GetObjectCalls(n) == [k \in 1..n |-> Event("get_object", k - 1, "")]

\* C15: a simple callable evaluates its positional arguments in index order
\* 0..len-1; when the evaluation of argument i fails, no later argument is
\* evaluated or marked retrieved, check() is not run, the native function is
\* not invoked, no array is handed out and the evaluation returns failure.
C15_FailFast ==
  [][(ret'.op = "simple_eval" /\ evals' = evals + 1) =>
       /\ (ret'.failed_at = -1 /\ ~filterx_function_args_empty(self)) =>
            /\ Len(ret'.trace) >= filterx_function_args_len(self)
            /\ SubSeq(ret'.trace, 1, filterx_function_args_len(self))
                 = GetObjectCalls(filterx_function_args_len(self))
       /\ ret'.failed_at >= 0 =>
            /\ ret'.trace = GetObjectCalls(ret'.failed_at + 1)
            /\ \A j \in (ret'.failed_at + 1)..(filterx_function_args_len(self) - 1) :
                 retrieved'[PositionalId(j)] = retrieved[PositionalId(j)]
            /\ ret'.check = "none" /\ ~ret'.native
            /\ ret'.array = <<>> /\ ret'.result = "NULL"]_vars

C15_Witness ==
  /\ ret.op = "simple_eval" /\ ret.failed_at = 0
  /\ filterx_function_args_len(self) >= 2
  /\ ~retrieved[PositionalId(1)] /\ ret.result = "NULL"

\* C10: a simple callable whose positional arguments have evaluated and whose
\* container holds a named argument that is never read fails: check() fails,
\* the failure is pushed as an argument error carrying the display name
\* "<name>()" and the message naming the unexpected argument, the evaluation
\* returns failure and the native function is not invoked.
C10_UnexpectedNamedFails ==
  (ret.op = "simple_eval" /\ ret.failed_at = -1 /\ UnretrievedNames(self, retrieved) # {}) =>
    /\ ret.check = "error"
    /\ ret.pushed.code = "UNEXPECTED_ARGS"
    /\ ret.pushed.message = "unexpected argument"
    /\ ret.pushed.name \in UnretrievedNames(self, retrieved)
    /\ ret.pushed_name = function_name \o "()"
    /\ ret.result = "NULL"
    /\ ~ret.native

C10_Witness ==
  /\ ret.op = "simple_eval" /\ ret.check = "error" /\ ret.pushed = UnexpectedArgs("baz")
  /\ Len(self.positional_args) = 2 /\ ret.pushed_name = "foo()" /\ expr.reads = {}

\* ------------------------------------------------- the life of a container

\* check() returns success and nothing else on container c with flags rt
CheckSucceeds(c, rt) ==
  \A r \in filterx_function_args_check(c, rt) : r.res = "ok"

\* C17: no operation (retrieval, check, evaluation of the callable) resets a
\* retrieved flag from true to false; so once check() succeeds on a container
\* it succeeds on every later call, also after later evaluations of the call
\* site in which fewer arguments were read.
C17_RetrievedMonotone ==
  [][/\ \A i \in ArgIds : retrieved[i] => retrieved'[i]
     /\ (self.state = "live" /\ CheckSucceeds(self, retrieved)) =>
          /\ CheckSucceeds(self', retrieved')
          /\ ret'.op = "check" => ret'.check = "ok"
          /\ ret'.op = "simple_eval" => ret'.check \in {"ok", "none"}]_vars

C17_Witness ==
  /\ ret.op = "simple_eval" /\ evals = 2 /\ ret.failed_at = 0
  /\ filterx_function_args_len(self) >= 2
  /\ \A i \in ArgIds : retrieved[i]
  /\ CheckSucceeds(self, retrieved)

\* the retrievals that return a value or a literal, and the evaluation of a
\* simple callable, which is made of them
ValueOps ==
  {"get_object", "get_named_object", "get_literal_string", "is_literal_null",
   "get_named_literal_object", "get_named_literal_string",
   "get_named_literal_generic_number", "get_named_literal_integer", "simple_eval", "check"}

\* the arguments a container holds
ContainerIds(c) == PositionalIds(c) \cup NamedIds(c)

\* C19: reference counts are balanced. A value- or literal-returning
\* retrieval (present or absent, literal or not, evaluating or failing)
\* leaves every expression's reference count as it was, so a live container
\* holds one reference per argument besides those handed out; only
\* get_positional_expr and get_named_expr leave one count one higher per
\* call, and freeing the container drops exactly one reference per argument.
C19_RefcountsBalanced ==
  [][/\ ret'.op \in ValueOps => refcnt' = refcnt
     /\ ret'.op \in {"get_expr", "get_named_expr"} =>
          IF ret'.found
          THEN \E id \in ContainerIds(self) : refcnt' = [refcnt EXCEPT ![id] = @ + 1]
          ELSE refcnt' = refcnt
     /\ ret'.op \in {"args_free", "expr_free"} =>
          \A i \in ArgIds :
            refcnt'[i] = refcnt[i] - (IF i \in ContainerIds(self) THEN 1 ELSE 0)
     /\ self'.state = "live" =>
          \A i \in ContainerIds(self') : refcnt'[i] = 1 + held'[i]
     /\ self'.state = "freed" =>
          \A i \in ContainerIds(self') : refcnt'[i] = held'[i]]_vars

C19_Witness ==
  /\ ret.op = "is_literal_null" /\ ret.found /\ ret.evaluated = 1
  /\ Len(args_list) = 2 /\ ContainerIds(self) = {1, 2}
  /\ held[1] + held[2] = 1
  /\ \A i \in ArgIds : retrieved[i] /\ refcnt[i] = 1 + held[i]

=========================================================================
